---- MODULE Spec2Model ----
(***************************************************************************)
(* Evaluation core of the Patter interpreter (src/src/main.rs): the term   *)
(* algebra SExpr, its structural equality, the simplifier, the pattern     *)
(* matcher match_ptn, the evaluator eval and function application          *)
(* Fun::call.  The recursive functions of the source are RECURSIVE         *)
(* operators that thread the Context and an event log; the state machine   *)
(* applies them to inputs drawn from bounded sets.                         *)
(***************************************************************************)
EXTENDS Integers, Sequences, FiniteSets, TLC

VARIABLES cxt, pc, op, inp, pre, out, log

vars == <<cxt, pc, op, inp, pre, out, log>>

(***************************************************************************)
(* Bounds of the model.                                                    *)
(***************************************************************************)
MaxNum == 1
MaxLen == 2
MaxScopes == 1

(***************************************************************************)
(* Terms: enum SExpr, one record shape per variant, tagged by k.           *)
(***************************************************************************)
Sigil(c) == [k |-> "Sigil", c |-> c]
List(ls) == [k |-> "List", ls |-> ls]
Ident(id) == [k |-> "Ident", id |-> id]
Place(id) == [k |-> "Place", id |-> id]
Number(n) == [k |-> "Number", n |-> n]
Fun(body, args_ptn, closure) ==
    [k |-> "Fun", body |-> body, args_ptn |-> args_ptn, closure |-> closure]
UnarySigilApp(sig, arg) == [k |-> "UnarySigilApp", sig |-> sig, arg |-> arg]
Operation(o) == [k |-> "Operation", o |-> o]
PtnAcc(acc, init, pats) ==
    [k |-> "PtnAcc", acc |-> acc, init |-> init, pats |-> pats]
Consecutive(ls) == [k |-> "Consecutive", ls |-> ls]
Spread(ls) == [k |-> "Spread", ls |-> ls]
Kleene(start, next) == [k |-> "Kleene", start |-> start, next |-> next]
AtPtnTime(e) == [k |-> "AtPtnTime", e |-> e]
LitMatch(e) == [k |-> "LitMatch", e |-> e]
ZeroWidth(e) == [k |-> "ZeroWidth", e |-> e]
Never == [k |-> "Never"]

\* fn kind: the variant tag of a term
kind(e) == e.k

(***************************************************************************)
(* impl PartialEq for SExpr.  The result is "T", "F", or "P" when the      *)
(* comparison panics ("Unhandled equality case").  Vec equality compares   *)
(* the lengths and then the elements in order, stopping at the first       *)
(* element pair that is not equal.                                         *)
(***************************************************************************)
Tri(b) == IF b THEN "T" ELSE "F"

RECURSIVE SExprEq(_, _)
RECURSIVE VecEqFrom(_, _, _)
VecEqFrom(v0, v1, i) ==
    IF i > Len(v0) THEN "T"
    ELSE LET r == SExprEq(v0[i], v1[i])
         IN IF r = "T" THEN VecEqFrom(v0, v1, i + 1) ELSE r

VecEq(v0, v1) == IF Len(v0) # Len(v1) THEN "F" ELSE VecEqFrom(v0, v1, 1)

SExprEq(a, b) ==
    IF a.k = "List" /\ b.k = "List" THEN VecEq(a.ls, b.ls)
    ELSE IF a.k = "Ident" /\ b.k = "Ident" THEN Tri(a.id = b.id)
    ELSE IF a.k = "Place" /\ b.k = "Place" THEN Tri(a.id = b.id)
    ELSE IF a.k = "Fun" /\ b.k = "Fun" THEN "F"
    ELSE IF a.k = "Number" /\ b.k = "Number" THEN Tri(a.n = b.n)
    ELSE IF a.k = "UnarySigilApp" /\ b.k = "UnarySigilApp"
         THEN IF a.sig = b.sig THEN SExprEq(a.arg, b.arg) ELSE "F"
    ELSE IF a.k = "Sigil" /\ b.k = "Sigil" THEN Tri(a.c = b.c)
    ELSE IF a.k = "ZeroWidth" /\ b.k = "ZeroWidth" THEN SExprEq(a.e, b.e)
    ELSE IF kind(a) # kind(b) THEN "F"
    ELSE "P"

\* impl PartialEq for Fun
FunEq(f, g) == FALSE

(***************************************************************************)
(* matches_singular / matches_literally: "T", "F", or "P" where the source *)
(* reaches unreachable!() (Spread, Never).  Iterator::all stops at the     *)
(* first element that is not true.                                         *)
(***************************************************************************)
RECURSIVE matches_singular(_)
RECURSIVE AllSingularFrom(_, _)
AllSingularFrom(ps, i) ==
    IF i > Len(ps) THEN "T"
    ELSE LET r == matches_singular(ps[i])
         IN IF r = "T" THEN AllSingularFrom(ps, i + 1) ELSE r

matches_singular(e) ==
    IF e.k \in {"Sigil", "Ident", "LitMatch", "List", "Place", "Fun",
                "UnarySigilApp", "Number", "Operation"} THEN "T"
    ELSE IF e.k = "PtnAcc" THEN AllSingularFrom(e.pats, 1)
    ELSE IF e.k \in {"Consecutive", "Kleene", "AtPtnTime", "ZeroWidth"} THEN "F"
    ELSE "P"

RECURSIVE matches_literally(_)
RECURSIVE AllLiterallyFrom(_, _)
AllLiterallyFrom(ls, i) ==
    IF i > Len(ls) THEN "T"
    ELSE LET r == matches_literally(ls[i])
         IN IF r = "T" THEN AllLiterallyFrom(ls, i + 1) ELSE r

matches_literally(e) ==
    IF e.k \in {"Sigil", "Ident", "Number", "Operation"} THEN "T"
    ELSE IF e.k = "List" THEN AllLiterallyFrom(e.ls, 1)
    ELSE IF e.k \in {"Place", "Fun", "UnarySigilApp", "PtnAcc", "Consecutive",
                     "Kleene", "AtPtnTime", "ZeroWidth", "LitMatch"} THEN "F"
    ELSE "P"

(***************************************************************************)
(* simplify: a List child whose own simplified form is a Spread is         *)
(* replaced by that Spread's elements; every other child is kept as it is. *)
(***************************************************************************)
RECURSIVE simplify(_)
RECURSIVE SimplifyFrom(_, _)
RECURSIVE SimplifyFromDeep(_, _)
SimplifyFromDeep(ls, i) ==
    IF i > Len(ls) THEN <<>>
    ELSE LET s == simplify(ls[i])
         IN (IF s.k = "Spread" THEN s.ls ELSE <<s>>) \o SimplifyFromDeep(ls, i + 1)
SimplifyFrom(ls, i) ==
    IF i > Len(ls) THEN <<>>
    ELSE LET s == simplify(ls[i])
         IN (IF s.k = "Spread" THEN s.ls ELSE <<ls[i]>>) \o SimplifyFrom(ls, i + 1)

simplify(e) ==
    IF e.k = "List" THEN List(SimplifyFrom(e.ls, 1))
    ELSE IF e.k = "UnarySigilApp" THEN UnarySigilApp(e.sig, simplify(e.arg))
    ELSE e

(***************************************************************************)
(* Bindings (crate::context::Bindings): a mapping from identifier to term, *)
(* here a function over Idents whose unbound names map to Absent.          *)
(***************************************************************************)
IdentSeq == <<"a", "b", "f", "l", "r", "#/sigil/colon">>
Idents == {IdentSeq[i] : i \in 1..Len(IdentSeq)}
Absent == [k |-> "Absent"]

empty == [i \in Idents |-> Absent]
basic == [i \in Idents |-> Absent]
of(id, t) == [i \in Idents |-> IF i = id THEN t ELSE Absent]
join(x, y) == [i \in Idents |-> IF y[i] # Absent THEN y[i] ELSE x[i]]

\* Option<Bindings>
Some(b) == [some |-> TRUE, b |-> b]
None == [some |-> FALSE, b |-> empty]
intersect(x, y) == IF x.some /\ y.some THEN Some(join(x.b, y.b)) ELSE None

(***************************************************************************)
(* Context (crate::context::Context): the scope stack, innermost last.     *)
(***************************************************************************)
ContextEmpty == <<>>
push_scope(c) == Append(c, empty)
pop_scope(c) == SubSeq(c, 1, Len(c) - 1)
add_bindings(c, b) == [c EXCEPT ![Len(c)] = join(@, b)]

RECURSIVE LookupFrom(_, _, _)
LookupFrom(c, id, i) ==
    IF i = 0 \/ id \notin Idents THEN Absent
    ELSE IF c[i][id] # Absent THEN c[i][id]
    ELSE LookupFrom(c, id, i - 1)

lookup(c, id) == LookupFrom(c, id, Len(c))

(***************************************************************************)
(* Result<_, InterpreterError>, plus the abort of the process (panic!,     *)
(* unreachable!, unwrap on None, slice index out of range).  An error has  *)
(* its kind, the terms it carries and its callstack, one entry per line.   *)
(***************************************************************************)
Ok(v) == [t |-> "Ok", v |-> v]
Err(info, data) == [t |-> "Err", info |-> info, data |-> data, callstack |-> <<>>]
Panic(msg) == [t |-> "Panic", info |-> msg]

\* result.map_err(|mut e| { e.callstack.push(..); e })
map_err(r, f, d) ==
    IF r.t = "Err"
    THEN [r EXCEPT !.callstack = Append(@, [f |-> f, d |-> d])]
    ELSE r

\* an outcome: the result, the context left behind, the events in order
O(r, c, l) == [r |-> r, cxt |-> c, log |-> l]
\* an event: what happened, in the frame at which depth, the depth of the
\* scope stack after it, and the term, bindings, arguments or error kind it
\* is about
Ev(e, d, c, t) ==
    [e |-> e, d |-> d, sd |-> Len(c), t |-> t, b |-> empty, info |-> "", args |-> <<>>]
EvB(e, d, c, b) ==
    [e |-> e, d |-> d, sd |-> Len(c), t |-> Never, b |-> b, info |-> "", args |-> <<>>]
EvCall(d, c, f, args) ==
    [e |-> "call", d |-> d, sd |-> Len(c), t |-> f, b |-> empty, info |-> "", args |-> args]
\* the event of a match_ptn frame that returns an error
EvMatchErr(r, d) ==
    [e |-> "match_err", d |-> d, sd |-> 0, t |-> Never, b |-> empty, info |-> r.info,
     args |-> <<>>]
\* the event of a frame's return: its value, or its error kind
EvRet(r, d, c) ==
    [e |-> r.t, d |-> d, sd |-> Len(c), t |-> IF r.t = "Ok" THEN r.v ELSE Never,
     b |-> empty, info |-> IF r.t = "Ok" THEN "" ELSE r.info, args |-> <<>>]

\* fn make_sigil_ident: "" stands for the unreachable!() of a character
\* that is not in the table; the tick sigil is not among the inputs
make_sigil_ident(sigil) ==
    CASE sigil = "," -> "#/sigil/comma"
      [] sigil = "~" -> "#/sigil/tilde"
      [] sigil = "!" -> "#/sigil/bang"
      [] sigil = "@" -> "#/sigil/at"
      [] sigil = "^" -> "#/sigil/carrot"
      [] sigil = "&" -> "#/sigil/amp"
      [] sigil = "*" -> "#/sigil/star"
      [] sigil = "+" -> "#/sigil/plus"
      [] sigil = "=" -> "#/sigil/eq"
      [] sigil = "|" -> "#/sigil/pike"
      [] sigil = ":" -> "#/sigil/colon"
      [] sigil = "<" -> "#/sigil/left"
      [] sigil = ">" -> "#/sigil/right"
      [] sigil = "[" -> "#/sigil/bracket"
      [] OTHER -> ""

(***************************************************************************)
(* The builtin behind an Operation term, fn(&mut Context): "add" sums the  *)
(* numbers bound to l and r, "never" yields the Never marker, "set" binds  *)
(* a in the innermost scope.                                               *)
(***************************************************************************)
OperationEval(o, c) ==
    CASE o = "add" ->
           LET x == lookup(c, "l")
               y == lookup(c, "r")
           IN IF x.k = "Number" /\ y.k = "Number"
              THEN [r |-> Ok(Number(x.n + y.n)), cxt |-> c]
              ELSE [r |-> Err("NotA", <<x, y>>), cxt |-> c]
      [] o = "never" -> [r |-> Ok(Never), cxt |-> c]
      [] OTHER ->
           [r |-> Ok(Number(0)),
            cxt |-> IF Len(c) = 0 THEN c ELSE add_bindings(c, of("a", Number(0)))]

(***************************************************************************)
(* Conversions between Option<Bindings> and terms.                         *)
(***************************************************************************)
SomeTag == UnarySigilApp(":", Ident("some"))
NoneTag == UnarySigilApp(":", Ident("none"))

\* Bindings as a term: the list of its (:name value) pairs
RECURSIVE BindingsIntoSExprFrom(_, _)
BindingsIntoSExprFrom(b, i) ==
    IF i > Len(IdentSeq) THEN <<>>
    ELSE (IF b[IdentSeq[i]] = Absent THEN <<>>
          ELSE <<List(<<UnarySigilApp(":", Ident(IdentSeq[i])), b[IdentSeq[i]]>>)>>)
         \o BindingsIntoSExprFrom(b, i + 1)

BindingsIntoSExpr(b) == List(BindingsIntoSExprFrom(b, 1))

\* impl IntoSExpr for Option<T>: both arms write the discriminant :some
OptionIntoSExpr(o) ==
    IF o.some THEN List(<<SomeTag, BindingsIntoSExpr(o.b)>>)
    ELSE List(<<SomeTag>>)

\* fn as_solidified
as_solidified(e) ==
    IF e.k = "UnarySigilApp" /\ e.sig = ":" THEN e.arg ELSE Absent

\* impl FromSExpr for Bindings
RECURSIVE BindingsFromPairs(_, _, _)
BindingsFromPairs(ls, i, acc) ==
    IF i > Len(ls) THEN Ok(acc)
    ELSE IF ls[i].k # "List" \/ Len(ls[i].ls) # 2
         THEN Err("CannotConvert", <<ls[i]>>)
    ELSE LET key == as_solidified(ls[i].ls[1])
         IN IF key.k # "Ident" THEN Err("CannotConvert", <<ls[i].ls[1]>>)
            ELSE BindingsFromPairs(ls, i + 1,
                     IF key.id \in Idents THEN join(acc, of(key.id, ls[i].ls[2]))
                     ELSE acc)

BindingsFromSExpr(expr, d) ==
    map_err(IF expr.k # "List" THEN Err("CannotConvert", <<expr>>)
            ELSE BindingsFromPairs(expr.ls, 1, empty),
            "bindings", d)

\* impl FromSExpr for Option<T>, at T = Bindings
OptionFromSExpr(expr, d) ==
    map_err(
      IF expr.k # "List" THEN Err("NotA", <<expr>>)
      ELSE IF Len(expr.ls) = 0 \/ Len(expr.ls) > 2 THEN Err("CannotConvert", <<expr>>)
      ELSE LET discr == expr.ls[1]
               isSome == SExprEq(discr, SomeTag)
               isNone == SExprEq(discr, NoneTag)
           IN IF isSome = "P" THEN Panic("Unhandled equality case")
              ELSE IF isSome = "T"
                   THEN IF Len(expr.ls) < 2 THEN Panic("index out of bounds")
                        ELSE LET b == BindingsFromSExpr(expr.ls[2], d + 1)
                             IN IF b.t = "Ok" THEN Ok(Some(b.v)) ELSE b
              ELSE IF isNone = "P" THEN Panic("Unhandled equality case")
              ELSE IF isNone = "T" THEN Ok(None)
              ELSE Err("CannotConvert", <<discr>>),
      "option", d)

(***************************************************************************)
(* eval, Fun::call and match_ptn call each other.  Each takes the depth d  *)
(* of its frame below the outermost operation and returns an outcome.  A   *)
(* call of one of them is a request to Run, which applies the function     *)
(* the request names: SExpr_eval, Fun_call or SExpr_match_ptn.             *)
(***************************************************************************)
RECURSIVE Run(_)
RECURSIVE EvalArgs(_, _, _, _, _)
RECURSIVE KleeneLoop(_, _, _, _, _, _, _)
RECURSIVE AccLoop(_, _, _, _, _, _, _)

eval(self, c, d) == Run([fn |-> "eval", x |-> self, y |-> Never, c |-> c, d |-> d])
call(self, args, c, d) ==
    Run([fn |-> "call", x |-> self, y |-> List(args), c |-> c, d |-> d])
match_ptn(self, expr, d) ==
    Run([fn |-> "match_ptn", x |-> self, y |-> expr, c |-> ContextEmpty, d |-> d])

PatternOnlySansFun == {"Spread", "Consecutive", "Kleene", "LitMatch", "Place",
                       "PtnAcc", "ZeroWidth", "AtPtnTime"}
PatternOnly == {"Spread", "Consecutive", "Kleene", "LitMatch", "Place",
                "PtnAcc", "Fun", "ZeroWidth", "AtPtnTime"}

\* ls[1..].iter().map(|e| e.eval(&mut cxt)).collect::<Result<_, _>>()
EvalArgs(ls, i, c, d, acc) ==
    IF i > Len(ls) THEN O(Ok(acc), c, <<>>)
    ELSE LET a == eval(ls[i], c, d)
         IN IF a.r.t # "Ok" THEN a
            ELSE LET rest == EvalArgs(ls, i + 1, a.cxt, d, Append(acc, a.r.v))
                 IN O(rest.r, rest.cxt, a.log \o rest.log)

\* the List arm of eval on an empty list
EvalEmptyAsUnit(c) == O(Ok(List(<<>>)), c, <<>>)
EvalEmpty(c) == O(Err("CannotEvaluate", <<List(<<>>)>>), c, <<>>)

\* the List arm of eval, on the simplified list
EvalListArgsFirst(ls, c, d) ==
    IF Len(ls) = 0 THEN EvalEmpty(c)
    ELSE LET as == EvalArgs(ls, 2, c, d + 1, <<>>)
         IN IF as.r.t # "Ok" THEN as
            ELSE LET h == eval(ls[1], as.cxt, d + 1)
                 IN IF h.r.t # "Ok" THEN O(h.r, h.cxt, as.log \o h.log)
                    ELSE IF h.r.v.k # "Fun"
                         THEN O(Err("CannotCall", <<ls[1]>>), h.cxt, as.log \o h.log)
                    ELSE LET cl == call(h.r.v, as.r.v, h.cxt, d + 1)
                         IN O(cl.r, cl.cxt, as.log \o h.log \o cl.log)
EvalList(ls, c, d) ==
    IF Len(ls) = 0 THEN EvalEmpty(c)
    ELSE LET h == eval(ls[1], c, d + 1)
         IN IF h.r.t # "Ok" THEN h
            ELSE IF h.r.v.k # "Fun"
                 THEN O(Err("CannotCall", <<ls[1]>>), h.cxt, h.log)
            ELSE LET as == EvalArgs(ls, 2, h.cxt, d + 1, <<>>)
                 IN IF as.r.t # "Ok" THEN O(as.r, as.cxt, h.log \o as.log)
                    ELSE LET cl == call(h.r.v, as.r.v, as.cxt, d + 1)
                         IN O(cl.r, cl.cxt, h.log \o as.log \o cl.log)

\* the UnarySigilApp arm of eval
EvalSigilApp(sigil, arg, c, d) ==
    LET fn == eval(Sigil(sigil), c, d + 1)
    IN IF fn.r.t # "Ok" THEN fn
       ELSE IF fn.r.v.k # "Fun"
            THEN O(Err("CannotCall", <<fn.r.v>>), fn.cxt, fn.log)
       ELSE LET cl == call(fn.r.v, <<arg>>, fn.cxt, d + 1)
            IN O(cl.r, cl.cxt, fn.log \o cl.log)

\* the match of eval's try block, before expr.simplify()
EvalDispatch(s, c, d) ==
    IF s.k = "List" THEN EvalList(s.ls, c, d)
    ELSE IF s.k = "UnarySigilApp" THEN EvalSigilApp(s.sig, s.arg, c, d)
    ELSE IF s.k = "Ident"
         THEN LET v == lookup(c, s.id)
              IN O(IF v = Absent THEN Err("UnknownName", <<s>>) ELSE Ok(v),
                   c, <<Ev("lookup", d, c, s)>>)
    ELSE IF s.k = "Operation"
         THEN LET o == OperationEval(s.o, c)
              IN O(o.r, o.cxt, <<Ev("operation", d, c, s)>>)
    ELSE IF s.k = "Sigil"
         THEN LET id == make_sigil_ident(s.c)
                  v == lookup(c, id)
              IN IF id = "" THEN O(Panic("unreachable"), c, <<>>)
                 ELSE O(IF v = Absent THEN Err("UndefinedSigil", <<s>>) ELSE Ok(v),
                        c, <<Ev("lookup", d, c, s)>>)
    ELSE IF s.k \in PatternOnly THEN O(Err("CannotEvaluate", <<s>>), c, <<>>)
    ELSE IF s.k = "Number" THEN O(Ok(s), c, <<>>)
    ELSE O(Panic("Somehow reached beyond the unreachable"), c, <<>>)

SExpr_eval(self, c, d) ==
    LET tr == EvalDispatch(simplify(self), c, d)
        result == IF tr.r.t = "Ok" THEN Ok(simplify(tr.r.v)) ELSE tr.r
        ret == IF result.t = "Ok" /\ result.v = Never
               THEN Err("ReachedTheUnreachable", <<>>)
               ELSE map_err(result, "eval", d)
    IN O(ret, tr.cxt,
         <<Ev("eval", d, c, self)>> \o tr.log \o <<EvRet(ret, d, tr.cxt)>>)

\* Fun::call after the body: both scopes are popped, whatever expr is
CallLeaveOnOk(expr, d) ==
    IF expr.r.t = "Err" THEN O(expr.r, expr.cxt, <<>>)
    ELSE LET c5 == pop_scope(expr.cxt)
             c6 == pop_scope(c5)
         IN O(expr.r, c6, <<Ev("pop_scope", d, c5, Never), Ev("pop_scope", d, c6, Never)>>)
CallLeave(expr, d) ==
    LET c5 == pop_scope(expr.cxt)
        c6 == pop_scope(c5)
    IN O(expr.r, c6, <<Ev("pop_scope", d, c5, Never), Ev("pop_scope", d, c6, Never)>>)

\* Fun::call when the parameter pattern does not match
CallRejectPushed(self, args, c) ==
    O(Err("NonMatchingArgs", <<self, List(args)>>), push_scope(c), <<>>)
CallReject(self, args, c) ==
    O(Err("NonMatchingArgs", <<self, List(args)>>), c, <<>>)

Fun_call(self, args, c, d) ==
    LET m == match_ptn(self.args_ptn, List(args), d + 1)
        enter == <<EvCall(d, c, self, args)>>
    IN IF m.r.t # "Ok" THEN O(m.r, c, enter \o m.log)
       ELSE IF m.r.v.some
       THEN LET c1 == push_scope(c)
                c2 == add_bindings(c1, self.closure)
                c3 == push_scope(c2)
                c4 == add_bindings(c3, m.r.v.b)
                expr == eval(self.body, c4, d + 1)
                in == enter \o m.log
                      \o <<Ev("push_scope", d, c1, Never),
                           EvB("add_bindings", d, c2, self.closure),
                           Ev("push_scope", d, c3, Never),
                           EvB("add_bindings", d, c4, m.r.v.b)>>
                      \o expr.log
                lv == CallLeave(expr, d)
            IN IF expr.r.t = "Panic" THEN O(expr.r, expr.cxt, in)
               ELSE O(lv.r, lv.cxt, in \o lv.log)
       ELSE LET rj == CallReject(self, args, c)
            IN O(rj.r, rj.cxt, enter \o m.log \o rj.log)

(***************************************************************************)
(* Context::new(): the base scope with the builtins, here f bound to the   *)
(* function (l r) -> add and the sigil : to the function that returns its  *)
(* one argument.                                                           *)
(***************************************************************************)
AddFun == Fun(Operation("add"), List(<<Place("l"), Place("r")>>), empty)
QuoteFun == Fun(Ident("a"), List(<<Place("a")>>), empty)
ContextNew == <<join(of("f", AddFun), of("#/sigil/colon", QuoteFun))>>

\* out_binds after a count: a count whose two sub-matches both succeed
\* overwrites what was recorded before
KleeneRecordFirst(out_binds, l, r) ==
    IF l.some /\ r.some /\ out_binds = Some(basic) THEN Some(join(l.b, r.b))
    ELSE out_binds
KleeneRecord(out_binds, l, r) ==
    IF l.some /\ r.some THEN Some(join(l.b, r.b)) ELSE out_binds

\* the Kleene arm's loop over the counts i, pats grown by next after each
KleeneLoop(left, exprs, next, pats, i, out_binds, d) ==
    IF i > Len(exprs) THEN O(Ok(out_binds), ContextEmpty, <<>>)
    ELSE LET m1 == match_ptn(List(pats), List(SubSeq(exprs, 1, i)), d + 1)
         IN IF m1.r.t # "Ok" THEN m1
            ELSE LET m2 == match_ptn(List(Tail(left)),
                                     List(SubSeq(exprs, i + 1, Len(exprs))), d + 1)
                 IN IF m2.r.t # "Ok" THEN O(m2.r, ContextEmpty, m1.log \o m2.log)
                    ELSE LET ob == KleeneRecord(out_binds, m1.r.v, m2.r.v)
                             nx == call(next, <<List(pats)>>, ContextEmpty, d + 1)
                             l3 == m1.log \o m2.log \o nx.log
                         IN IF nx.r.t # "Ok" THEN O(nx.r, ContextEmpty, l3)
                            ELSE LET rest == KleeneLoop(left, exprs, next,
                                                 Append(pats, nx.r.v), i + 1, ob, d)
                                 IN O(rest.r, ContextEmpty, l3 \o rest.log)

\* the PtnAcc fold from sub-pattern i on; left is Absent for a bare PtnAcc,
\* else the list pattern whose head each sub-pattern replaces
AccLoop(acc, pats, i, bindings, left, expr, d) ==
    IF i > Len(pats) THEN O(Ok(bindings), ContextEmpty, <<>>)
    ELSE LET sub == IF left = Absent THEN pats[i]
                    ELSE List([left.ls EXCEPT ![1] = pats[i]])
             m == match_ptn(sub, expr, d + 1)
         IN IF m.r.t # "Ok" THEN m
            ELSE LET r == call(acc, <<OptionIntoSExpr(bindings),
                                      OptionIntoSExpr(m.r.v)>>, ContextNew, d + 1)
                     l2 == m.log \o r.log
                 IN IF r.r.t # "Ok" THEN O(r.r, ContextEmpty, l2)
                    ELSE LET o == OptionFromSExpr(r.r.v, d + 1)
                         IN IF o.t # "Ok" THEN O(o, ContextEmpty, l2)
                            ELSE LET rest == AccLoop(acc, pats, i + 1, o.v, left, expr, d)
                                 IN O(rest.r, ContextEmpty, l2 \o rest.log)

\* both sub-matches are made, each with ?, then combined
MatchBoth(p1, e1, p2, e2, d) ==
    LET m1 == match_ptn(p1, e1, d + 1)
    IN IF m1.r.t # "Ok" THEN m1
       ELSE LET m2 == match_ptn(p2, e2, d + 1)
            IN IF m2.r.t # "Ok" THEN O(m2.r, ContextEmpty, m1.log \o m2.log)
               ELSE O(Ok(intersect(m1.r.v, m2.r.v)), ContextEmpty, m1.log \o m2.log)

Front(s) == SubSeq(s, 1, Len(s) - 1)
Last(s) == s[Len(s)]

\* a ZeroWidth head against a val that does not begin with one: the
\* pattern tail is matched against the whole val
ZeroWidthSkipConsumes(left, right, d) ==
    match_ptn(List(Tail(left)), List(IF Len(right) > 0 THEN Tail(right) ELSE right), d + 1)
ZeroWidthSkip(left, right, d) ==
    match_ptn(List(Tail(left)), List(right), d + 1)

\* the last arm of the List against List match
ListFallthroughNone == O(Ok(None), ContextEmpty, <<>>)
ListFallthrough == O(Panic("Failed to handle list pattern match"), ContextEmpty, <<>>)

\* the arms for a list pattern whose head is not singular
MatchListHead(left, right, d) ==
    IF left[1].k = "ZeroWidth" /\ Len(right) > 0 /\ right[1].k = "ZeroWidth"
    THEN MatchBoth(left[1].e, right[1].e, List(Tail(left)), List(Tail(right)), d)
    ELSE IF left[1].k = "ZeroWidth"
    THEN ZeroWidthSkip(left, right, d)
    ELSE IF left[1].k = "Kleene"
    THEN IF left[1].start.k # "List"
         THEN O(Panic("called Option::unwrap() on a None value"), ContextEmpty, <<>>)
         ELSE KleeneLoop(left, right, left[1].next, left[1].start.ls,
                         Len(left[1].start.ls), Some(basic), d)
    ELSE IF left[1].k = "Consecutive"
    THEN IF Len(left[1].ls) > Len(right)
         THEN O(Panic("range end index out of range"), ContextEmpty, <<>>)
         ELSE MatchBoth(List(left[1].ls), List(SubSeq(right, 1, Len(left[1].ls))),
                        List(Tail(left)),
                        List(SubSeq(right, Len(left[1].ls) + 1, Len(right))), d)
    ELSE IF left[1].k = "PtnAcc"
    THEN AccLoop(left[1].acc, left[1].pats, 1, left[1].init, List(left), List(right), d)
    ELSE ListFallthrough

\* the List against List arm of match_ptn
MatchList(left, right, d) ==
    IF Len(left) = 0
    THEN O(Ok(IF Len(right) = 0 THEN Some(empty) ELSE None), ContextEmpty, <<>>)
    ELSE IF Len(right) = 0
    THEN LET g == matches_singular(left[1])
         IN IF g = "P" THEN O(Panic("unreachable"), ContextEmpty, <<>>)
            ELSE IF g = "T" THEN O(Ok(None), ContextEmpty, <<>>)
            ELSE MatchListHead(left, right, d)
    ELSE LET g4 == matches_singular(Last(left))
             g5 == matches_singular(left[1])
         IN IF g4 = "P" THEN O(Panic("unreachable"), ContextEmpty, <<>>)
            ELSE IF g4 = "T"
            THEN MatchBoth(Last(left), Last(right),
                           List(Front(left)), List(Front(right)), d)
            ELSE IF g5 = "P" THEN O(Panic("unreachable"), ContextEmpty, <<>>)
            ELSE IF g5 = "T"
            THEN MatchBoth(left[1], right[1], List(Tail(left)), List(Tail(right)), d)
            ELSE MatchListHead(left, right, d)

\* the match of match_ptn's try block
MatchDispatch(self, expr, d) ==
    LET lit == matches_literally(self)
        eq == SExprEq(self, expr)
    IN IF lit = "P" THEN O(Panic("unreachable"), ContextEmpty, <<>>)
       ELSE IF lit = "T"
       THEN IF eq = "P" THEN O(Panic("Unhandled equality case"), ContextEmpty, <<>>)
            ELSE O(Ok(IF eq = "T" THEN Some(empty) ELSE None), ContextEmpty, <<>>)
       ELSE IF self.k = "List" /\ expr.k = "List" THEN MatchList(self.ls, expr.ls, d)
       ELSE IF self.k = "List" THEN O(Ok(None), ContextEmpty, <<>>)
       ELSE IF self.k = "AtPtnTime"
       THEN IF self.e.k # "Fun" THEN O(Err("CannotCall", <<self.e>>), ContextEmpty, <<>>)
            ELSE LET cl == call(self.e, <<>>, ContextEmpty, d + 1)
                 IN IF cl.r.t # "Ok" THEN O(cl.r, ContextEmpty, cl.log)
                    ELSE LET m == match_ptn(cl.r.v, expr, d + 1)
                         IN O(m.r, ContextEmpty, cl.log \o m.log)
       ELSE IF self.k = "Place" THEN O(Ok(Some(of(self.id, expr))), ContextEmpty, <<>>)
       ELSE IF self.k = "PtnAcc"
       THEN AccLoop(self.acc, self.pats, 1, self.init, Absent, expr, d)
       ELSE IF self.k = "UnarySigilApp" /\ expr.k = "UnarySigilApp"
       THEN IF self.sig = expr.sig THEN match_ptn(self.arg, expr.arg, d + 1)
            ELSE O(Ok(None), ContextEmpty, <<>>)
       ELSE IF self.k = "UnarySigilApp" THEN O(Ok(None), ContextEmpty, <<>>)
       ELSE O(Panic("Unhandled pattern match"), ContextEmpty, <<>>)

SExpr_match_ptn(self, expr, d) ==
    LET tr == MatchDispatch(self, expr, d)
    IN O(map_err(tr.r, "match", d), ContextEmpty,
         tr.log \o IF tr.r.t = "Err" THEN <<EvMatchErr(tr.r, d)>> ELSE <<>>)

Run(req) ==
    CASE req.fn = "eval" -> SExpr_eval(req.x, req.c, req.d)
      [] req.fn = "call" -> Fun_call(req.x, req.y.ls, req.c, req.d)
      [] OTHER -> SExpr_match_ptn(req.x, req.y, req.d)

(***************************************************************************)
(* The inputs the operations are applied to.                               *)
(***************************************************************************)
SeqsUpTo(S, n) == UNION {[1..m -> S] : m \in 0..n}
Nums == {Number(n) : n \in 0..MaxNum}
NumLists == {List(s) : s \in SeqsUpTo(Nums, MaxLen)}

\* literal terms: atoms and lists of atoms
LitAtoms == Nums \cup {Ident("a"), Sigil(":"), Operation("add")}
LitElems == Nums \cup {Ident("a"), Operation("add")}
LitLists == {List(s) : s \in SeqsUpTo(LitElems, MaxLen)}
           \cup {List(<<List(<<Number(0)>>)>>), List(<<List(<<Operation("add")>>)>>)}
Literals == LitAtoms \cup LitLists

\* functions that grow a Kleene pattern: always a Place, always the literal
\* 0, one whose parameter pattern accepts only the empty sequence-so-far,
\* and one that grows Places of another name
NextAny == Fun(Ident("a"), Place("b"), of("a", Place("a")))
NextZero == Fun(Ident("a"), Place("b"), of("a", Number(0)))
NextOnce == Fun(Ident("a"), List(<<List(<<>>)>>), of("a", Place("a")))
NextB == Fun(Ident("a"), Place("b"), of("a", Place("b")))
Nexts == {NextAny, NextZero, NextOnce}

\* the accumulator of a PtnAcc that keeps the latest match result
AccLatest == Fun(Ident("r"), List(<<Place("l"), Place("r")>>), empty)

ZW == ZeroWidth(Ident("a"))
KleeneHeads == {Kleene(st, nx) : st \in {List(<<>>), List(<<Place("a")>>), Number(0)},
                                 nx \in Nexts}
KleeneTails == {<<>>, <<Place("b")>>, <<Number(1)>>, <<ZW>>,
                <<Kleene(List(<<>>), NextB)>>, <<Consecutive(<<Place("b")>>)>>}
KleenePatterns == {List(<<h>> \o tl) : h \in KleeneHeads, tl \in KleeneTails}

ConsecBlocks == {<<>>, <<Number(0)>>, <<Place("a"), Number(1)>>, <<Number(0), Place("b")>>}
ConsecTails == {<<>>, <<Place("b")>>, <<Consecutive(<<Number(0)>>)>>, <<ZW>>}
ConsecPatterns == {List(<<Consecutive(b)>> \o tl) : b \in ConsecBlocks, tl \in ConsecTails}

ZeroWidthRests == {<<>>, <<Place("b")>>, <<Number(0)>>, <<ZW>>,
                   <<Consecutive(<<Number(0)>>)>>, <<Kleene(List(<<>>), NextAny)>>,
                   <<Place("b"), ZW>>}
ZeroWidthPatterns == {List(<<ZeroWidth(x)>> \o tl) :
                         x \in {Ident("a"), Place("a")}, tl \in ZeroWidthRests}

SingularElems == {Place("a"), Place("b"), Number(0), UnarySigilApp(":", Place("a"))}
SingularPatterns == {List(s) : s \in SeqsUpTo(SingularElems, MaxLen) \ {<<>>}}

AccPats == {<<>>, <<Place("a")>>, <<Number(0), Place("a")>>, <<Consecutive(<<Place("a")>>)>>,
            <<Consecutive(<<Place("a")>>), Consecutive(<<Place("b")>>)>>}
AccPatterns == {PtnAcc(AccLatest, i, ps) : i \in {None, Some(empty)}, ps \in AccPats}
               \cup {List(<<PtnAcc(AccLatest, i, ps)>>) : i \in {None, Some(empty)}, ps \in AccPats}

OtherPatterns == {Place("a"), UnarySigilApp(":", Place("a")), UnarySigilApp(":", Ident("a")),
                  LitMatch(Number(0)), AddFun, ZW, Never, Spread(<<>>),
                  List(<<Place("a"), Spread(<<>>)>>), List(<<Number(0), Never>>),
                  AtPtnTime(NextAny), AtPtnTime(Number(0)),
                  AtPtnTime(Fun(Ident("a"), List(<<>>), of("a", Place("a")))),
                  List(<<AtPtnTime(Number(0)), ZW>>), List(<<AtPtnTime(NextAny)>>),
                  List(<<AtPtnTime(Number(0)), Place("a")>>),
                  Consecutive(<<Place("a")>>), Kleene(List(<<>>), NextAny),
                  List(<<Operation("add"), Place("a")>>),
                  List(<<List(<<Place("a")>>), Place("b")>>)}

Patterns == Literals \cup KleenePatterns \cup ConsecPatterns \cup ZeroWidthPatterns
            \cup SingularPatterns \cup AccPatterns \cup OtherPatterns

Values == Literals
          \cup {ZW, List(<<ZW>>), List(<<ZW, Number(0)>>), List(<<ZeroWidth(Number(0))>>),
                UnarySigilApp(":", Ident("a")), UnarySigilApp(",", Ident("a")),
                UnarySigilApp(":", Number(0)), AddFun, Never, Spread(<<>>),
                LitMatch(Number(0)), Place("a"), List(<<UnarySigilApp(":", Number(1))>>)}

\* lists with Spread children, some of them holding Spreads themselves
SpreadElems == Nums \cup {Spread(<<>>), Spread(<<Number(0)>>),
                          Spread(<<Number(0), Number(1)>>),
                          Spread(<<Spread(<<Number(1)>>)>>),
                          List(<<Spread(<<Number(0)>>)>>),
                          UnarySigilApp(":", List(<<Spread(<<Number(0)>>)>>)),
                          UnarySigilApp(":", Spread(<<Number(0)>>)),
                          List(<<Number(0), Spread(<<>>)>>)}
SimplifyInputs == {List(s) : s \in SeqsUpTo(SpreadElems, MaxLen)}
                  \cup {UnarySigilApp(":", List(<<Spread(<<Number(0)>>)>>)),
                        Spread(<<Spread(<<>>)>>), Number(0), Never}

(***************************************************************************)
(* The state machine: a session holds a Context; from idle it applies one  *)
(* operation to an input, keeps the input, the Context before, the result  *)
(* and the events, and returns to idle unless the operation aborted.       *)
(***************************************************************************)
Init ==
    /\ cxt = ContextNew
    /\ pc = "idle"
    /\ op = "none"
    /\ inp = <<>>
    /\ pre = ContextNew
    /\ out = Ok(Never)
    /\ log = <<>>

Finish(name, input, o) ==
    /\ pc' = IF o.r.t = "Panic" THEN "aborted" ELSE "done"
    /\ op' = name
    /\ inp' = input
    /\ pre' = cxt
    /\ cxt' = o.cxt
    /\ out' = o.r
    /\ log' = o.log

DoSimplify ==
    /\ pc = "idle"
    /\ \E t \in SimplifyInputs :
          Finish("simplify", <<t>>, O(Ok(simplify(t)), cxt, <<>>))

DoMatch ==
    /\ pc = "idle"
    /\ \E p \in Patterns, t \in Values :
          Finish("match_ptn", <<p, t>>, [match_ptn(p, t, 0) EXCEPT !.cxt = cxt])

Reset ==
    /\ pc = "done"
    /\ pc' = "idle"
    /\ op' = "none"
    /\ inp' = <<>>
    /\ pre' = cxt
    /\ out' = Ok(Never)
    /\ log' = <<>>
    /\ UNCHANGED cxt

\* terms to evaluate
CallF(args) == List(<<Ident("f")>> \o args)
ArgTerms == Nums \cup {Ident("b"), Operation("set"), CallF(<<Number(0), Number(1)>>)}
Heads == {Ident("f"), Ident("a"), Number(0), Sigil(":")}
EvalAtoms == Nums \cup {Ident("a"), Ident("b"), Ident("f"), Sigil(":"), Sigil(","), Sigil("?"),
                        Operation("add"), Operation("never"), Operation("set"), Never,
                        AddFun, Place("a"), Spread(<<>>), Consecutive(<<>>),
                        Kleene(List(<<>>), NextAny), LitMatch(Number(0)),
                        PtnAcc(AccLatest, None, <<>>), ZW, AtPtnTime(NextAny)}
EvalTerms == EvalAtoms
             \cup {List(<<h>> \o s) : h \in Heads, s \in SeqsUpTo(ArgTerms, MaxLen)}
             \cup {List(<<>>), List(<<Spread(<<>>)>>), List(<<Spread(<<>>), Spread(<<>>)>>),
                   UnarySigilApp(":", Number(0)), UnarySigilApp("?", Number(0)),
                   UnarySigilApp(":", List(<<Spread(<<Ident("b")>>)>>)),
                   CallF(<<Spread(<<Number(0), Number(1)>>)>>),
                   CallF(<<Number(1), Operation("never")>>),
                   List(<<Operation("never"), Number(0)>>),
                   List(<<Ident("b"), Ident("b")>>),
                   UnarySigilApp(":", Ident("b")), UnarySigilApp(",", Ident("b")),
                   UnarySigilApp(":", CallF(<<Number(0), Number(1)>>))}

\* functions to call: bodies that fail, abort, call on, or change the scope
ClosureFun == Fun(CallF(<<Ident("l"), Ident("r")>>), List(<<Place("l")>>),
                  join(of("f", AddFun), of("r", Number(1))))
CallFuns == {AddFun, QuoteFun, ClosureFun, NextAny,
             Fun(Ident("b"), Place("l"), empty),
             Fun(CallF(<<Ident("l")>>), List(<<Place("l")>>), empty),
             Fun(Operation("never"), Place("l"), empty),
             Fun(Never, List(<<Place("l")>>), empty),
             Fun(Operation("set"), Place("l"), of("a", Number(1))),
             Fun(Ident("a"), List(<<Kleene(List(<<>>), NextAny)>>), empty),
             Fun(Number(0), List(<<Consecutive(<<Place("a"), Place("b")>>)>>), empty),
             Fun(Number(0), AtPtnTime(Number(0)), empty)}
CallArgs == SeqsUpTo(Nums, MaxLen)
HostBindings == {of("a", Number(1))}

DoEval ==
    /\ pc = "idle"
    /\ \E t \in EvalTerms : Finish("eval", <<t>>, eval(t, cxt, 0))

DoCall ==
    /\ pc = "idle"
    /\ \E f \in CallFuns, args \in CallArgs :
          Finish("call", <<f, List(args)>>, call(f, args, cxt, 0))

\* the host's own use of the Context between operations
PushScope ==
    /\ pc = "idle"
    /\ Len(cxt) <= MaxScopes
    /\ cxt' = push_scope(cxt)
    /\ pre' = cxt'
    /\ UNCHANGED <<pc, op, inp, out, log>>

PopScope ==
    /\ pc = "idle"
    /\ Len(cxt) > 1
    /\ cxt' = pop_scope(cxt)
    /\ pre' = cxt'
    /\ UNCHANGED <<pc, op, inp, out, log>>

AddBindings ==
    /\ pc = "idle"
    /\ \E b \in HostBindings : cxt' = add_bindings(cxt, b)
    /\ pre' = cxt'
    /\ UNCHANGED <<pc, op, inp, out, log>>

Next == DoEval \/ DoCall \/ PushScope \/ PopScope \/ AddBindings \/ Reset
Spec == Init /\ [][Next]_vars

NextSimplify == DoSimplify \/ Reset
SpecSimplify == Init /\ [][NextSimplify]_vars

NextMatch == DoMatch \/ Reset
SpecMatch == Init /\ [][NextMatch]_vars

\* terms compared with ==: functions, lists that hold one, and other terms
Bool(b) == [k |-> "Bool", b |-> b]
EqTerms == {AddFun, NextAny, Number(0), Number(1), Ident("a"), Operation("add"),
            ZeroWidth(AddFun), List(<<>>), List(<<Number(0)>>), List(<<AddFun>>),
            List(<<Number(0), AddFun>>), List(<<Number(1), AddFun>>),
            List(<<AddFun, Operation("add")>>), List(<<Operation("add"), AddFun>>),
            List(<<List(<<AddFun>>)>>)}

DoEq ==
    /\ pc = "idle"
    /\ \E a \in EqTerms, b \in EqTerms :
          LET r == SExprEq(a, b)
          IN Finish("eq", <<a, b>>,
                    O(IF r = "P" THEN Panic("Unhandled equality case") ELSE Ok(Bool(r = "T")),
                      cxt, <<>>))

NextEq == DoEq \/ Reset
SpecEq == Init /\ [][NextEq]_vars

\* optional bindings to encode, and terms to decode as an option
OptBindings == {join(of("a", x), of("b", y)) : x, y \in Nums \cup {Absent, Ident("a")}}
Options == {None} \cup {Some(b) : b \in OptBindings}
OptElems == {SomeTag, NoneTag, UnarySigilApp(",", Ident("some")), Number(0), List(<<>>),
             List(<<List(<<UnarySigilApp(":", Ident("a")), Number(0)>>)>>)}
OptTerms == {List(s) : s \in SeqsUpTo(OptElems, MaxLen + 1)} \cup {Number(0), SomeTag, Never}

\* Option::from_sexpr(o.into_sexpr())
DoRoundTrip ==
    /\ pc = "idle"
    /\ \E o \in Options :
          Finish("roundtrip", <<o>>, O(OptionFromSExpr(OptionIntoSExpr(o), 0), cxt, <<>>))

DoDecode ==
    /\ pc = "idle"
    /\ \E t \in OptTerms :
          Finish("decode", <<t>>, O(OptionFromSExpr(t, 0), cxt, <<>>))

NextOption == DoRoundTrip \/ DoDecode \/ Reset
SpecOption == Init /\ [][NextOption]_vars

(***************************************************************************)
(* The claims.                                                             *)
(***************************************************************************)
Returned == pc = "done"
Strip(r) == IF r.t = "Err" THEN [r EXCEPT !.callstack = <<>>] ELSE r

\* C2: for a pattern P with matches_literally(P) true and any term T,
\* match_ptn(P, T) returns Some(empty bindings) if P and T are structurally
\* equal and None otherwise; it never returns an error and never aborts.
C2_LiteralMatchNeverAborts ==
    (op = "match_ptn" /\ matches_literally(inp[1]) = "T")
        => out = Ok(IF inp[1] = inp[2] THEN Some(empty) ELSE None)

\* C3: simplify is idempotent: simplifying the result of simplify again
\* changes nothing, also for lists whose Spread children hold Spreads.
C3_SimplifyIdempotent ==
    (op = "simplify" /\ inp[1].k = "List") => simplify(out.v) = out.v

(***************************************************************************)
(* A list pattern that begins with Kleene{start, next}, matched against a  *)
(* list val, where the Kleene case is the one taken: val is empty or the   *)
(* pattern's last element is not singular.                                 *)
(***************************************************************************)
HeadReached(k) ==
    /\ op = "match_ptn"
    /\ inp[1].k = "List" /\ inp[2].k = "List"
    /\ Len(inp[1].ls) > 0
    /\ inp[1].ls[1].k = k
    /\ (Len(inp[2].ls) = 0 \/ matches_singular(Last(inp[1].ls)) = "F")

KleeneReached == HeadReached("Kleene") /\ inp[1].ls[1].start.k = "List"

\* the repeated sequence grown to n patterns by next, if every call returns
RECURSIVE GrownPats(_, _, _)
GrownPats(pats, next, n) ==
    IF Len(pats) >= n THEN Ok(pats)
    ELSE LET nx == call(next, <<List(pats)>>, ContextEmpty, 1).r
         IN IF nx.t = "Ok" THEN GrownPats(Append(pats, nx.v), next, n) ELSE nx

\* the two sub-matches of count i
CountLeft(i) ==
    LET g == GrownPats(inp[1].ls[1].start.ls, inp[1].ls[1].next, i)
    IN IF g.t = "Ok"
       THEN match_ptn(List(g.v), List(SubSeq(inp[2].ls, 1, i)), 1).r
       ELSE g
CountRight(i) ==
    match_ptn(List(Tail(inp[1].ls)), List(SubSeq(inp[2].ls, i + 1, Len(inp[2].ls))), 1).r
CountOk(i) ==
    /\ CountLeft(i).t = "Ok" /\ CountLeft(i).v.some
    /\ CountRight(i).t = "Ok" /\ CountRight(i).v.some
Counts == Len(inp[1].ls[1].start.ls)..Len(inp[2].ls)

\* C4: when no repetition count i in len(start)..=len(val) makes both the
\* first i grown patterns match val[0..i] and the pattern tail match
\* val[i..], the match of a Kleene-headed list pattern is None.
C4_KleeneNoCountFails ==
    (KleeneReached /\ \A i \in Counts : ~CountOk(i)) => out = Ok(None)

\* C6: a Consecutive(block) head against fewer than len(block) elements is
\* the failure None, neither an error nor an abort; against at least
\* len(block) elements it is the intersect of block against
\* val[0..len(block)] and the pattern tail against val[len(block)..].
C6_ConsecutiveExact ==
    HeadReached("Consecutive") =>
        LET block == inp[1].ls[1].ls
            val == inp[2].ls
            n == Len(block)
            m1 == match_ptn(List(block), List(SubSeq(val, 1, n)), 1).r
            m2 == match_ptn(List(Tail(inp[1].ls)), List(SubSeq(val, n + 1, Len(val))), 1).r
        IN IF Len(val) < n THEN out = Ok(None)
           ELSE (m1.t = "Ok" /\ m2.t = "Ok") => out = Ok(intersect(m1.v, m2.v))

\* the largest count that succeeds
BestCount == CHOOSE i \in Counts : CountOk(i) /\ \A j \in Counts : CountOk(j) => j <= i
BestJoin == Some(join(CountLeft(BestCount).v.b, CountRight(BestCount).v.b))

ZeroWidthReached ==
    /\ HeadReached("ZeroWidth")
    /\ (Len(inp[2].ls) = 0 \/ inp[2].ls[1].k # "ZeroWidth")

C7_ZeroWidthConsumesNothing ==
    ZeroWidthReached =>
        /\ Strip(out) = Strip(match_ptn(List(Tail(inp[1].ls)), inp[2], 1).r)
        /\ (Len(inp[1].ls) = 1 /\ Len(inp[2].ls) = 0) => out = Ok(Some(empty))

\* the rest of the pattern matched every element of a non-empty val
C7_Witness ==
    /\ ZeroWidthReached
    /\ Len(inp[1].ls) > 1
    /\ Len(inp[2].ls) > 0
    /\ out.t = "Ok" /\ out.v.some

(***************************************************************************)
(* Claims about eval and Fun::call.                                        *)
(***************************************************************************)
AtDepth(l, d) == SelectSeq(l, LAMBDA e : e.d = d)
Shape(l) == [i \in 1..Len(l) |-> <<l[i].e, l[i].sd>>]

\* the parameter pattern's match against List(args), as Fun::call makes it
ArgsMatch == match_ptn(inp[1].args_ptn, inp[2], 1).r

\* the index of the event with which the frame opened at log[i] returns
FrameEnd(l, i) ==
    CHOOSE j \in (i + 1)..Len(l) :
        /\ l[j].d = l[i].d /\ l[j].e \in {"Ok", "Err"}
        /\ \A m \in (i + 1)..(j - 1) : ~(l[m].d = l[i].d /\ l[m].e \in {"Ok", "Err"})

\* C1: a Fun::call that returns, with a value or an error, leaves the scope
\* stack as deep as it found it; when the parameter pattern matches it
\* pushes exactly two scopes, the closure's bindings first and the
\* parameter bindings on top, and pops both whether the body succeeded or
\* failed; every nested eval frame returns at the depth it was entered.
C1_ScopeDepthBalanced ==
    (op \in {"call", "eval"} /\ Returned) =>
        /\ Len(cxt) = Len(pre)
        /\ \A i \in 1..Len(log) :
              log[i].e = "eval" => log[FrameEnd(log, i)].sd = log[i].sd
        /\ (op = "call" /\ ArgsMatch.t = "Ok" /\ ArgsMatch.v.some) =>
              LET own == AtDepth(log, 0)
                  n == Len(pre)
              IN /\ Shape(own) = <<<<"call", n>>, <<"push_scope", n + 1>>,
                                   <<"add_bindings", n + 1>>, <<"push_scope", n + 2>>,
                                   <<"add_bindings", n + 2>>, <<"pop_scope", n + 1>>,
                                   <<"pop_scope", n>>>>
                 /\ own[3].b = inp[1].closure
                 /\ own[5].b = ArgsMatch.v.b

\* the body of a called function fails inside a nested call, below a
\* scope the host pushed
C1_Witness ==
    /\ op = "call" /\ Returned
    /\ ArgsMatch.t = "Ok" /\ ArgsMatch.v.some
    /\ out.t = "Err" /\ out.info = "NonMatchingArgs"
    /\ Len(pre) > 1

\* C8: whenever eval's dispatch yields the Never marker, as the value of a
\* lookup, the result of a call or builtin, or because the term evaluated
\* is Never itself, eval returns the error ReachedTheUnreachable; it never
\* returns Ok(Never) and it does not abort.
C8_NeverIsReported ==
    op = "eval" =>
        /\ out # Ok(Never)
        /\ simplify(inp[1]) \in {Never, Operation("never")}
              => (out.t = "Err" /\ out.info = "ReachedTheUnreachable")

\* C9: when the parameter pattern does not match List(args), Fun::call
\* returns NonMatchingArgs carrying the function and the arguments, does
\* not evaluate the body, pushes no scope and adds no binding, and leaves
\* the environment as it was.
C9_NonMatchingArgs ==
    (op = "call" /\ ArgsMatch = Ok(None)) =>
        /\ out.t = "Err" /\ out.info = "NonMatchingArgs"
        /\ out.data = <<inp[1], inp[2]>>
        /\ cxt = pre
        /\ Shape(AtDepth(log, 0)) = <<<<"call", Len(pre)>>>>
        /\ AtDepth(log, 1) = <<>>

\* a call rejected below a scope the host pushed and bound a name in
C9_Witness ==
    /\ op = "call" /\ ArgsMatch = Ok(None)
    /\ Len(pre) > 1
    /\ pre[Len(pre)] # empty
    /\ Len(inp[2].ls) > 0

\* C10: in eval of a non-empty List, element 0 is evaluated before any
\* argument; if it reduces to something that is no Function the result is
\* CannotCall and no argument is evaluated; otherwise the remaining
\* elements are evaluated left to right in the caller's environment, the
\* evaluation stops at the first argument that fails, whose error is
\* returned with the function not called, and the function is applied
\* only after every argument has been evaluated.
Elems == simplify(inp[1]).ls
Direct == SelectSeq(log, LAMBDA e : e.d = 1 /\ e.e \in {"eval", "Ok", "Err", "Panic", "call"})
Evals == Cardinality({i \in 1..Len(Direct) : Direct[i].e = "eval"})
Calls == {i \in 1..Len(Direct) : Direct[i].e = "call"}

C10_EvalOrder ==
    (op = "eval" /\ simplify(inp[1]).k = "List" /\ Len(Elems) > 0) =>
        /\ Evals >= 1 /\ Evals <= Len(Elems)
        /\ Len(Direct) >= 2 * Evals
        /\ \A j \in 1..Evals :
              /\ Direct[2 * j - 1].e = "eval"
              /\ Direct[2 * j - 1].t = Elems[j]
              /\ Direct[2 * j - 1].sd = Len(pre)
              /\ Direct[2 * j].e \in {"Ok", "Err", "Panic"}
              /\ j < Evals => Direct[2 * j].e = "Ok"
        /\ (Direct[2].e = "Ok" /\ Direct[2].t.k # "Fun") =>
              /\ Evals = 1 /\ Calls = {}
              /\ out.t = "Err" /\ out.info = "CannotCall"
        /\ Direct[2 * Evals].e = "Err" =>
              /\ Calls = {}
              /\ out.t = "Err" /\ out.info = Direct[2 * Evals].info
        /\ (Direct[2].e = "Ok" /\ Direct[2].t.k = "Fun" /\ Direct[2 * Evals].e = "Ok") =>
              /\ Evals = Len(Elems)
              /\ Calls = {2 * Evals + 1}
              /\ Direct[2 * Evals + 1].t = Direct[2].t
        /\ Calls # {} => Evals = Len(Elems)

\* a function head, a first argument that evaluates and a second that fails
C10_Witness ==
    /\ op = "eval" /\ simplify(inp[1]).k = "List" /\ Len(Elems) = 3
    /\ Evals = 3
    /\ Direct[2].t.k = "Fun"
    /\ Direct[4].e = "Ok"
    /\ Direct[6].e = "Err"
    /\ out.t = "Err"

(***************************************************************************)
(* Claims about equality, evaluation targets and simplify.                 *)
(***************************************************************************)
RECURSIVE HoldsFun(_)
HoldsFun(t) == t.k = "List" /\ \E i \in 1..Len(t.ls) : t.ls[i].k = "Fun" \/ HoldsFun(t.ls[i])

\* C11: a Function is equal to no term, another Function and itself
\* included, and so a List that holds a Function is equal to no List, itself
\* included: each such comparison returns false.
C11_FunNeverEqual ==
    op = "eq" =>
        /\ (inp[1].k = "Fun" \/ inp[2].k = "Fun") => out = Ok(Bool(FALSE))
        /\ (HoldsFun(inp[1]) /\ inp[2].k = "List") => out = Ok(Bool(FALSE))

\* the events of log that look a name up, run a builtin or call a function
Effects(l) == SelectSeq(l, LAMBDA e : e.e \in {"lookup", "operation", "call", "push_scope",
                                              "pop_scope", "add_bindings"})

\* C12: eval of a List that is empty, or whose children are all empty
\* Spreads, fails with CannotEvaluate, looks nothing up, calls nothing and
\* leaves the environment as it was.
C12_EmptyListCannotEvaluate ==
    (op = "eval" /\ inp[1].k = "List"
        /\ \A i \in 1..Len(inp[1].ls) : inp[1].ls[i] = Spread(<<>>)) =>
        /\ out.t = "Err" /\ out.info = "CannotEvaluate"
        /\ Effects(log) = <<>>
        /\ cxt = pre

\* a list of two empty Spreads, evaluated below a scope the host pushed
C12_Witness ==
    /\ op = "eval" /\ inp[1] = List(<<Spread(<<>>), Spread(<<>>)>>)
    /\ Len(pre) > 1
    /\ out.t = "Err"

\* C13: eval of UnarySigilApp(sigil, arg) calls the function bound to the
\* sigil-derived name with exactly one argument, the arg term itself,
\* which is not evaluated; if the sigil is unbound the result is
\* UndefinedSigil and nothing is called.
SigilBound == make_sigil_ident(inp[1].sig) # "" /\ lookup(pre, make_sigil_ident(inp[1].sig)) # Absent
C13_SigilAppliedToRawArg ==
    (op = "eval" /\ inp[1].k = "UnarySigilApp") =>
        LET calls == SelectSeq(log, LAMBDA e : e.d = 1 /\ e.e = "call")
            evals == SelectSeq(log, LAMBDA e : e.d = 1 /\ e.e = "eval")
        IN IF SigilBound
           THEN /\ Len(evals) = 1 /\ evals[1].t = Sigil(inp[1].sig)
                /\ Len(calls) = 1
                /\ calls[1].t = lookup(pre, make_sigil_ident(inp[1].sig))
                /\ calls[1].args = <<inp[1].arg>>
           ELSE /\ out.t = "Err" /\ out.info = "UndefinedSigil"
                /\ Len(calls) = 0

\* C14: eval of a pattern-only form or of a bare Function returns
\* CannotEvaluate in every environment and leaves the environment as it
\* was.
C14_PatternOnlyCannotEvaluate ==
    (op = "eval" /\ inp[1].k \in {"Spread", "Consecutive", "Kleene", "LitMatch", "Place",
                                 "PtnAcc", "ZeroWidth", "AtPtnTime", "Fun"}) =>
        /\ out.t = "Err" /\ out.info = "CannotEvaluate"
        /\ out.data = <<inp[1]>>
        /\ Effects(log) = <<>>
        /\ cxt = pre

\* a bare Function evaluated below a scope in which the host bound a name
C14_Witness ==
    /\ op = "eval" /\ inp[1].k = "Fun"
    /\ Len(pre) > 1 /\ pre[Len(pre)] # empty
    /\ out.t = "Err"

\* C15: simplify of a List is the concatenation, in order, of what each
\* child contributes: the elements of inner for a child Spread(inner), the
\* child itself, not simplified, for any other; a List without a Spread
\* child is a fixed point.
RECURSIVE Spliced(_, _)
Spliced(ls, i) ==
    IF i > Len(ls) THEN <<>>
    ELSE (IF ls[i].k = "Spread" THEN ls[i].ls ELSE <<ls[i]>>) \o Spliced(ls, i + 1)

C15_SimplifySplices ==
    (op = "simplify" /\ inp[1].k = "List") =>
        /\ out = Ok(List(Spliced(inp[1].ls, 1)))
        /\ (\A i \in 1..Len(inp[1].ls) : inp[1].ls[i].k # "Spread") => out = Ok(inp[1])

\* a Spread child is spliced beside a child that simplify would change
C15_Witness ==
    /\ op = "simplify" /\ inp[1].k = "List" /\ Len(inp[1].ls) = 2
    /\ inp[1].ls[1].k = "Spread" /\ Len(inp[1].ls[1].ls) > 0
    /\ inp[1].ls[2].k # "Spread" /\ simplify(inp[1].ls[2]) # inp[1].ls[2]

(***************************************************************************)
(* Claims about match_ptn.                                                 *)
(***************************************************************************)
\* a list pattern, matched against a list, comes to the arms for its head:
\* val is empty or the pattern's last element is not singular
HeadArmsReached ==
    /\ op = "match_ptn"
    /\ inp[1].k = "List" /\ inp[2].k = "List"
    /\ Len(inp[1].ls) > 0
    /\ (Len(inp[2].ls) = 0 \/ matches_singular(Last(inp[1].ls)) # "T")

\* C16: a pattern shape match_ptn has no case for is never a silent
\* non-match: a list pattern whose head is none of singular, ZeroWidth,
\* Kleene, Consecutive or PtnAcc, and a pattern that is a bare Function,
\* LitMatch, Consecutive, Kleene or ZeroWidth, end in an abort, which is
\* neither None nor an error value.
C16_UnhandledShapeAborts ==
    op = "match_ptn" =>
        /\ (HeadArmsReached /\ matches_singular(inp[1].ls[1]) # "T"
               /\ inp[1].ls[1].k \notin {"ZeroWidth", "Kleene", "Consecutive", "PtnAcc"})
              => (out.t = "Panic" /\ pc = "aborted")
        /\ inp[1].k \in {"Fun", "LitMatch", "Consecutive", "Kleene", "ZeroWidth"}
              => (out.t = "Panic" /\ pc = "aborted")

\* an AtPtnTime head with a non-singular last element, against a
\* non-empty list
C16_Witness ==
    /\ HeadArmsReached
    /\ inp[1].ls[1].k = "AtPtnTime"
    /\ Len(inp[2].ls) > 0
    /\ out = Panic("Failed to handle list pattern match")

\* patterns that match one position: Places, literal atoms, UnarySigilApps
\* and lists of these
RECURSIVE Matchable(_)
Matchable(p) ==
    \/ p.k \in {"Place", "Sigil", "Ident", "Number", "Operation"}
    \/ p.k = "UnarySigilApp" /\ Matchable(p.arg)
    \/ p.k = "List" /\ \A i \in 1..Len(p.ls) : Matchable(p.ls[i])

ElemMatch(i) == match_ptn(inp[1].ls[i], inp[2].ls[i], 1).r
ElemOk(i) == ElemMatch(i).t = "Ok" /\ ElemMatch(i).v.some

\* C17: a List pattern whose elements are all singular and matchable,
\* against a List term, succeeds iff the lists have the same length and
\* every pattern element matches the term element at its index; the
\* bindings of a success are those of the elements joined, and any length
\* or element mismatch gives None.
C17_SingularListElementwise ==
    (op = "match_ptn" /\ inp[1].k = "List" /\ inp[2].k = "List"
        /\ \A i \in 1..Len(inp[1].ls) : Matchable(inp[1].ls[i])) =>
        IF Len(inp[1].ls) = Len(inp[2].ls) /\ \A i \in 1..Len(inp[1].ls) : ElemOk(i)
        THEN /\ out.t = "Ok" /\ out.v.some
             /\ \A id \in Idents :
                   IF \E i \in 1..Len(inp[1].ls) : ElemMatch(i).v.b[id] # Absent
                   THEN \E i \in 1..Len(inp[1].ls) :
                           ElemMatch(i).v.b[id] # Absent /\ out.v.b[id] = ElemMatch(i).v.b[id]
                   ELSE out.v.b[id] = Absent
        ELSE out = Ok(None)

\* the PtnAcc case is the one taken: the pattern is a PtnAcc, or a list
\* pattern with a PtnAcc head that is not singular and the arms for the
\* head are reached
AccBare == inp[1].k = "PtnAcc"
AccReached ==
    /\ op = "match_ptn"
    /\ \/ AccBare
       \/ /\ HeadArmsReached
          /\ inp[1].ls[1].k = "PtnAcc"
          /\ matches_singular(inp[1].ls[1]) = "F"
AccPat == IF AccBare THEN inp[1] ELSE inp[1].ls[1]
SubPat(i) == IF AccBare THEN AccPat.pats[i] ELSE List([inp[1].ls EXCEPT ![1] = AccPat.pats[i]])
SubMatch(i) == match_ptn(SubPat(i), inp[2], 1).r

\* what acc returns at the i-th call, given the running value and the i-th
\* sub-pattern's match result; the running value before the first call is
\* init
RECURSIVE AccReturn(_)
AccReturn(i) ==
    IF i = 0 THEN Ok(OptionIntoSExpr(AccPat.init))
    ELSE IF AccReturn(i - 1).t # "Ok" THEN AccReturn(i - 1)
    ELSE IF SubMatch(i).t # "Ok" THEN SubMatch(i)
    ELSE call(AccPat.acc, <<AccReturn(i - 1).v, OptionIntoSExpr(SubMatch(i).v)>>,
              ContextNew, 1).r

\* C18: matching PtnAcc{acc, init, pats} is a left fold: acc is called once
\* per sub-pattern, in order, with the running value and that
\* sub-pattern's match result, a failure included, and what the last call
\* returns is the result; with no sub-pattern the result is init and acc is
\* not called.  In list position the sub-pattern's match is that of the
\* list pattern with its head replaced by the sub-pattern, against the
\* whole val.
C18_PtnAccFold ==
    AccReached =>
        LET n == Len(AccPat.pats)
            calls == SelectSeq(log, LAMBDA e : e.d = 1 /\ e.e = "call")
        IN IF n = 0 THEN out = Ok(AccPat.init) /\ calls = <<>>
           ELSE AccReturn(n).t = "Ok" =>
                   /\ Len(calls) = n
                   /\ \A i \in 1..n :
                         /\ calls[i].t = AccPat.acc
                         /\ calls[i].args = <<AccReturn(i - 1).v,
                                              OptionIntoSExpr(SubMatch(i).v)>>
                   /\ out.t = "Ok"
                   /\ OptionIntoSExpr(out.v) = AccReturn(n).v

(***************************************************************************)
(* Claims about the error trace and the Option conversion.                 *)
(***************************************************************************)
\* the eval and match_ptn frames that returned an error, in the order in
\* which they returned, and the lines of the trace that such frames push
ErrFrames == SelectSeq(log, LAMBDA e : e.e \in {"Err", "match_err"})
FrameLines == SelectSeq(out.callstack, LAMBDA l : l.f \in {"eval", "match"})

\* C19: an error that leaves k nested eval / match_ptn frames carries one
\* trace line of each of them, innermost first, the frame that raised it
\* included, also for ReachedTheUnreachable; no frame pushes two lines and
\* none pushes no line.
C19_OneTraceLinePerFrame ==
    (op \in {"eval", "match_ptn", "call"} /\ out.t = "Err") =>
        /\ Len(FrameLines) = Len(ErrFrames)
        /\ \A i \in 1..Len(FrameLines) :
              /\ i <= Len(ErrFrames)
              /\ FrameLines[i].d = ErrFrames[i].d
              /\ FrameLines[i].f = (IF ErrFrames[i].e = "Err" THEN "eval" ELSE "match")

\* a term that is an encoded option: (:none), (:none x) or (:some x) with x
\* an encoded Bindings
WellFormedOption(t) ==
    /\ t.k = "List" /\ Len(t.ls) \in {1, 2}
    /\ \/ t.ls[1] = NoneTag
       \/ t.ls[1] = SomeTag /\ Len(t.ls) = 2 /\ BindingsFromSExpr(t.ls[2], 1).t = "Ok"

\* C20: decoding the encoding of an optional value gives the value back,
\* for None and for every Some(x); decoding a term that is not a
\* well-formed option returns a NotA or CannotConvert error and does not
\* abort.
C20_OptionRoundTrip ==
    /\ op = "roundtrip" => out = Ok(inp[1])
    /\ (op = "decode" /\ ~WellFormedOption(inp[1])) =>
          (out.t = "Err" /\ out.info \in {"NotA", "CannotConvert"})

====
